---- MODULE Spec2Model ----
(***************************************************************************)
(* bkrs2json: conversion of bkrs.info DSL dictionary files to one JSON     *)
(* array (src/bkrs2json.py).                                               *)
(*                                                                         *)
(* A string is a sequence of characters.  A character is a one-character   *)
(* string, except for the two classes the regular expressions of the       *)
(* program only test by range: "CYR" stands for one code point of          *)
(* U+0400..U+04FF and "CJK" for one code point of U+4E00..U+9FFF.          *)
(***************************************************************************)
EXTENDS Integers, Sequences, FiniteSets, TLC

VARIABLES
    \* parse_directory / parse_dsl_file
    pc,             \* position of the run
    alt_format,     \* the --alt-format flag
    dsl_files,      \* number of .dsl files found by os.scandir
    file_no,        \* index of the file being parsed (1..dsl_files)
    skipped,        \* header lines consumed by next(file, None)
    entry_lines,    \* the group being accumulated
    first_entry,    \* the serializer's "no record written yet" flag
    json_file,      \* the text written to the output file, as a token sequence
    \* history of the run (not program state)
    content_lines,  \* lines read from the current file after the header
    groups,         \* groups handed to process_entry for the current file
    written,        \* <<file, entry>> of every record written, in order
    status,         \* how the parsing of each file ended
    \* process_entry applied to one line group
    e_frags,        \* the fragments the group is built from
    e_lines,        \* the line group
    e_used,         \* fragments appended so far
    e_result,       \* what process_entry returned
    e_pc,
    \* is_mainly_russian applied to one string
    r_meaning,      \* the string
    r_result,       \* what is_mainly_russian returned
    r_pc

run_vars == <<pc, dsl_files, file_no, skipped, entry_lines, first_entry,
              json_file, content_lines, groups, written, status>>
entry_vars == <<e_frags, e_lines, e_used, e_result, e_pc>>
russian_vars == <<r_meaning, r_result, r_pc>>
vars == <<run_vars, alt_format, entry_vars, russian_vars>>

----------------------------------------------------------------------------
(* Characters *)

CYR == "CYR"
CJK == "CJK"

\* str.strip() and \s: the whitespace the model's inputs contain
Whitespace == {" ", "\t"}
\* \d
Digits == {"0", "1", "2", "3", "4", "5", "6", "7", "8", "9"}
\* [a-zA-Z], the letters the model's inputs contain
LatinChars == {"a", "b", "c", "e", "f", "i", "m", "n", "p", "r", "x", "I", "V"}

SetMin(S) == CHOOSE a \in S : \A b \in S : a <= b

\* s[idx[1]] s[idx[2]] ...: the characters of s at the positions idx
Pick(s, idx) == [k \in 1..Len(idx) |-> s[idx[k]]]

\* the literal w occurs in s at position i
MatchAt(s, i, w) ==
    /\ i >= 1
    /\ i + Len(w) - 1 <= Len(s)
    /\ s[i] = w[1]
    /\ SubSeq(s, i, i + Len(w) - 1) = w

\* str.strip()
RECURSIVE LStripFrom(_, _)
LStripFrom(s, i) ==
    IF i > Len(s) \/ s[i] \notin Whitespace THEN i ELSE LStripFrom(s, i + 1)

RECURSIVE RStripFrom(_, _)
RStripFrom(s, i) ==
    IF i < 1 \/ s[i] \notin Whitespace THEN i ELSE RStripFrom(s, i - 1)

Strip(s) == SubSeq(s, LStripFrom(s, 1), RStripFrom(s, Len(s)))

\* str.startswith(prefixes), each prefix one character
StartsWith(s, firsts) == Len(s) > 0 /\ s[1] \in firsts

----------------------------------------------------------------------------
(* The precompiled regular expressions *)

\* the pattern without its end anchor: ^[U+4E00-U+9FFF]+
ChinesePrefixMatch(line) == Len(line) >= 1 /\ line[1] = CJK

\* CHINESE_CHARS_REGEX.match(line): ^[U+4E00-U+9FFF]+$ on a stripped line
ChineseMatch(line) ==
    /\ Len(line) >= 1
    /\ \A i \in 1..Len(line) : line[i] = CJK

\* the alternatives of TAGS_REGEX: c | p | ref | b | i | \*
TagNames == {<<"c">>, <<"p">>, <<"r", "e", "f">>, <<"b">>, <<"i">>, <<"*">>}

\* length of the match of TAGS_REGEX, \[/?(?:c|p|ref|b|i|\*)\], that starts at
\* position i of s; 0 when there is none
TagLen(s, i) ==
    IF ~MatchAt(s, i, <<"[">>) THEN 0
    ELSE LET j == IF MatchAt(s, i + 1, <<"/">>) THEN i + 2 ELSE i + 1
             ms == {n \in TagNames :
                       MatchAt(s, j, n) /\ MatchAt(s, j + Len(n), <<"]">>)}
         IN  IF ms = {} THEN 0
             ELSE j + Len(CHOOSE n \in ms : TRUE) + 1 - i

\* the positions a to b, in their order
Range(a, b) == [k \in 1..(b - a + 1) |-> a + k - 1]

\* positions of s that TAGS_REGEX.sub('', s) keeps, scanning from position i:
\* the search finds the leftmost match at or after i, and goes on behind it
RECURSIVE TagsKeepFrom(_, _)
TagsKeepFrom(s, i) ==
    LET starts == {p \in i..Len(s) : TagLen(s, p) > 0}
    IN  IF starts = {} THEN Range(i, Len(s))
        ELSE LET p == SetMin(starts)
             IN  Range(i, p - 1) \o TagsKeepFrom(s, p + TagLen(s, p))

TagsKeep(s) == TagsKeepFrom(s, 1)

\* TAGS_REGEX.sub('', s)
TagsSub(s) == LET keep == TagsKeep(s) IN Pick(s, keep)

ExOpen == <<"[", "e", "x", "]">>
ExClose == <<"[", "/", "e", "x", "]">>

\* last position of the match of EXAMPLES_REGEX, \[ex].*?\[/ex], that starts at
\* position i of s; 0 when there is none ('.' matches no line feed)
ExampleEnd(s, i) ==
    IF ~MatchAt(s, i, ExOpen) THEN 0
    ELSE LET js == {j \in (i + Len(ExOpen))..Len(s) : MatchAt(s, j, ExClose)}
         IN  IF js = {} THEN 0
             ELSE LET j == SetMin(js)
                  IN  IF \E k \in (i + Len(ExOpen))..(j - 1) : s[k] = "\n"
                      THEN 0
                      ELSE j + Len(ExClose) - 1

\* positions of s that EXAMPLES_REGEX.sub('', s) keeps, scanning from position
\* i: the search finds the leftmost match at or after i, and goes on behind it
RECURSIVE ExamplesKeepFrom(_, _)
ExamplesKeepFrom(s, i) ==
    LET starts == {p \in i..Len(s) : ExampleEnd(s, p) > 0}
    IN  IF starts = {} THEN Range(i, Len(s))
        ELSE LET p == SetMin(starts)
             IN  Range(i, p - 1) \o ExamplesKeepFrom(s, ExampleEnd(s, p) + 1)

\* a normalizer that leaves the example blocks in the body
ExamplesKeepAll(s) == [i \in 1..Len(s) |-> i]

ExamplesKeep(s) == ExamplesKeepFrom(s, 1)

\* EXAMPLES_REGEX.sub('', s)
ExamplesSub(s) == LET keep == ExamplesKeep(s) IN Pick(s, keep)

MClose == <<"[", "/", "m", "]">>

\* length of the match of \[m\d?\] that starts at position i of s; 0 when none
MOpenLen(s, i) ==
    IF MatchAt(s, i, <<"[", "m", "]">>) THEN 3
    ELSE IF /\ MatchAt(s, i, <<"[", "m">>)
            /\ i + 3 <= Len(s)
            /\ s[i + 2] \in Digits
            /\ s[i + 3] = "]"
         THEN 4
         ELSE 0

\* position of the [/m] that closes the match of MEANINGS_REGEX,
\* \[m\d?\](.*?)\[/m\], that starts at position i of s; 0 when there is none
\* ('.' matches no line feed)
MeaningEnd(s, i) ==
    LET n == MOpenLen(s, i)
    IN  IF n = 0 THEN 0
        ELSE LET js == {j \in (i + n)..Len(s) : MatchAt(s, j, MClose)}
             IN  IF js = {} THEN 0
                 ELSE LET j == SetMin(js)
                      IN  IF \E k \in (i + n)..(j - 1) : s[k] = "\n"
                          THEN 0
                          ELSE j

\* the group spans <<first, last>> of the matches of MEANINGS_REGEX in s,
\* scanning from position i (first = last + 1 for an empty group): the search
\* finds the leftmost match at or after i, and goes on behind it
RECURSIVE MeaningSpansFrom(_, _)
MeaningSpansFrom(s, i) ==
    LET starts == {p \in i..Len(s) : MeaningEnd(s, p) > 0}
    IN  IF starts = {} THEN <<>>
        ELSE LET p == SetMin(starts)
                 j == MeaningEnd(s, p)
             IN  <<<<p + MOpenLen(s, p), j - 1>>>>
                     \o MeaningSpansFrom(s, j + Len(MClose))

MeaningSpans(s) == MeaningSpansFrom(s, 1)

\* MEANINGS_REGEX.findall(s)
MeaningsFindall(s) ==
    LET spans == MeaningSpans(s)
    IN  [k \in 1..Len(spans) |-> SubSeq(s, spans[k][1], spans[k][2])]

\* len(RUSSIAN_CHARS_REGEX.findall(s))
RussianCount(s) == Cardinality({i \in 1..Len(s) : s[i] = CYR})

\* len(LATIN_CHARS_REGEX.findall(s))
LatinCount(s) == Cardinality({i \in 1..Len(s) : s[i] \in LatinChars})

----------------------------------------------------------------------------
(* String helpers of process_entry *)

\* s.replace(old, new), scanning from position i
RECURSIVE ReplaceFrom(_, _, _, _)
ReplaceFrom(s, i, old, new) ==
    IF i > Len(s) THEN <<>>
    ELSE IF MatchAt(s, i, old)
         THEN new \o ReplaceFrom(s, i + Len(old), old, new)
         ELSE <<s[i]>> \o ReplaceFrom(s, i + 1, old, new)

Replace(s, old, new) == ReplaceFrom(s, 1, old, new)

\* re.sub(r'\s+', ' ', s), scanning from position i
RECURSIVE CollapseFrom(_, _)
CollapseFrom(s, i) ==
    IF i > Len(s) THEN <<>>
    ELSE IF s[i] \in Whitespace
         THEN LET rest == {j \in (i + 1)..Len(s) : s[j] \notin Whitespace}
              IN  <<" ">> \o (IF rest = {} THEN <<>>
                              ELSE CollapseFrom(s, SetMin(rest)))
         ELSE <<s[i]>> \o CollapseFrom(s, i + 1)

CollapseSpaces(s) == CollapseFrom(s, 1)

\* ' '.join(lines)
RECURSIVE Join(_)
Join(lines) ==
    IF lines = <<>> THEN <<>>
    ELSE IF Len(lines) = 1 THEN lines[1]
         ELSE lines[1] \o <<" ">> \o Join(Tail(lines))

----------------------------------------------------------------------------
(* is_mainly_russian *)

\* a classifier whose threshold is not strict
RatioAtLeastThreshold(russian_chars, total_letters) ==
    10 * russian_chars >= total_letters

\* (russian_chars / total_letters) > 0.1 for total_letters > 0.  The quotient
\* and 0.1 are doubles; the double nearest r/t exceeds the double 0.1 exactly
\* when 10 * r > t for every t below 2^50, far above any string length.
RatioAboveThreshold(russian_chars, total_letters) ==
    10 * russian_chars > total_letters

IsMainlyRussian(meaning) ==
    IF StartsWith(meaning, {"I", "V"}) THEN TRUE
    ELSE LET russian_chars == RussianCount(meaning)
             latin_chars == LatinCount(meaning)
             total_letters == russian_chars + latin_chars
         IN  IF total_letters > 0
             THEN RatioAboveThreshold(russian_chars, total_letters)
             ELSE FALSE

----------------------------------------------------------------------------
(* process_entry *)

\* [m.strip() for m in ms if m.strip()]
RECURSIVE StripNonEmpty(_)
StripNonEmpty(ms) ==
    IF ms = <<>> THEN <<>>
    ELSE IF Strip(Head(ms)) # <<>>
         THEN <<Strip(Head(ms))>> \o StripNonEmpty(Tail(ms))
         ELSE StripNonEmpty(Tail(ms))

\* re.sub(r'\s+', ' ', meaning.replace('\\[', '[').replace('\\]', ']')
\*        .replace('\"', '"')).strip()
\* The Python literal '\"' is the one-character string '"'.
CleanMeaning(meaning) ==
    Strip(CollapseSpaces(
        Replace(Replace(Replace(meaning, <<"\\", "[">>, <<"[">>),
                        <<"\\", "]">>, <<"]">>),
                <<"\"">>, <<"\"">>)))

\* [CleanMeaning(m) for m in meanings if is_mainly_russian(m)]
RECURSIVE CleanRussian(_)
CleanRussian(meanings) ==
    IF meanings = <<>> THEN <<>>
    ELSE IF IsMainlyRussian(Head(meanings))
         THEN <<CleanMeaning(Head(meanings))>> \o CleanRussian(Tail(meanings))
         ELSE CleanRussian(Tail(meanings))

\* content after the examples and the tags are removed
EntryContent(lines) ==
    LET content == Join(SubSeq(lines, 3, Len(lines)))
        without_examples == ExamplesSub(content)
    IN  TagsSub(without_examples)

\* the candidate meanings of the group
EntryMeanings(lines) == StripNonEmpty(MeaningsFindall(EntryContent(lines)))

\* the two output shapes: {"word":, "pinyin":, "meanings":} and
\* {headword: [pinyin, meanings]}
MakeEntry(headword, pinyin, cleaned_meanings, alt) ==
    IF alt
    THEN [shape |-> "alt", word |-> headword, pinyin |-> pinyin,
          meanings |-> cleaned_meanings]
    ELSE [shape |-> "default",
          map |-> [k \in {headword} |-> <<pinyin, cleaned_meanings>>]]

\* the result of a call: an entry, None, or the IndexError of entry_lines[1]
None == [kind |-> "None"]
IndexError == [kind |-> "IndexError"]
Returned(entry) == [kind |-> "entry", entry |-> entry]

\* a normalizer that returns the record whatever cleaned_meanings holds
ReturnsEntryAlways(cleaned_meanings) == TRUE

\* the test `if cleaned_meanings:`
ReturnsEntry(cleaned_meanings) == cleaned_meanings # <<>>

ProcessEntry(lines, alt) ==
    IF Len(lines) < 2 THEN IndexError
    ELSE LET headword == Strip(lines[1])
             pinyin == TagsSub(Strip(lines[2]))
             cleaned_meanings == CleanRussian(EntryMeanings(lines))
         IN  IF ReturnsEntry(cleaned_meanings)
             THEN Returned(MakeEntry(headword, pinyin, cleaned_meanings, alt))
             ELSE None

\* fields of a record of either shape
EntryWord(entry) ==
    IF entry.shape = "alt" THEN entry.word
    ELSE CHOOSE k \in DOMAIN entry.map : TRUE
EntryPinyin(entry) ==
    IF entry.shape = "alt" THEN entry.pinyin ELSE entry.map[EntryWord(entry)][1]
EntryMeaningList(entry) ==
    IF entry.shape = "alt" THEN entry.meanings
    ELSE entry.map[EntryWord(entry)][2]

----------------------------------------------------------------------------
(* The output file *)

\* one character written as literal text, and one json.dump of an entry
Text(c) == [t |-> "text", text |-> c, entry |-> None]
Dump(entry) == [t |-> "dump", text |-> "", entry |-> entry]

\* a serializer that separates every record, the first one too
WritesCommaAlways(is_first_entry) == TRUE

\* whether write_entry_to_json writes the separator
WritesComma(is_first_entry) == ~is_first_entry

\* a serializer that drops a record the file already holds
WriteEntryOnce(entry, file, is_first_entry) ==
    IF \E k \in 1..Len(file) : file[k] = Dump(entry) THEN file
    ELSE (IF WritesComma(is_first_entry)
          THEN file \o <<Text(","), Text("\n")>>
          ELSE file) \o <<Dump(entry)>>

\* write_entry_to_json(entry, json_file, is_first_entry): the file afterwards
WriteEntryToJson(entry, file, is_first_entry) ==
    (IF WritesComma(is_first_entry)
     THEN file \o <<Text(","), Text("\n")>>
     ELSE file) \o <<Dump(entry)>>

----------------------------------------------------------------------------
(* parse_directory and parse_dsl_file *)

\* for _ in range(3): next(file, None)
HeaderLines == 3

MaxFiles == 2       \* .dsl files in the directory
MaxLines == 6       \* lines of one file after its header

\* the lines the files of a directory are made of
HeadwordLine == <<CJK>>
MeaningLine == <<"[", "m", "]", CYR, "[", "/", "m", "]">>
DslLines == {HeadwordLine, MeaningLine}

\* the lines of a single file: headwords with and without surrounding
\* whitespace, a line that mixes ideographs and letters, a meaning, a blank line
PaddedHeadword == <<" ", CJK, CJK, "\t">>
MixedLine == <<CJK, "n">>
BlankLine == <<" ">>
GrouperLines == {HeadwordLine, PaddedHeadword, MixedLine, MeaningLine, BlankLine}

Idle == "idle"

\* what a step of one machine leaves alone
RunFrame == UNCHANGED <<alt_format, entry_vars, russian_vars>>
EntryFrame == UNCHANGED <<run_vars, russian_vars>>
RussianFrame == UNCHANGED <<run_vars, alt_format, entry_vars>>

InitRun(files, formats) ==
    /\ pc = "start"
    /\ alt_format \in formats
    /\ dsl_files \in files
    /\ file_no = 0
    /\ skipped = 0
    /\ entry_lines = <<>>
    /\ first_entry = TRUE
    /\ json_file = <<>>
    /\ content_lines = <<>>
    /\ groups = <<>>
    /\ written = <<>>
    /\ status = [f \in 1..dsl_files |-> "pending"]

\* `if not dsl_files: return False`: no output file is created
NoFiles ==
    /\ RunFrame
    /\ pc = "start"
    /\ dsl_files = 0
    /\ pc' = "failed"
    /\ UNCHANGED <<dsl_files, file_no, skipped, entry_lines, first_entry,
                   json_file, content_lines, groups, written, status>>

\* first_entry = True; open(json_file_path, 'w'); json_file.write('[\n')
OpenOutput ==
    /\ RunFrame
    /\ pc = "start"
    /\ dsl_files > 0
    /\ first_entry' = TRUE
    /\ json_file' = <<Text("["), Text("\n")>>
    /\ pc' = "between"
    /\ UNCHANGED <<dsl_files, file_no, skipped, entry_lines, content_lines,
                   groups, written, status>>

\* the next iteration of `for dsl_file in dsl_files`: parse_dsl_file starts
OpenFile ==
    /\ RunFrame
    /\ pc = "between"
    /\ file_no < dsl_files
    /\ file_no' = file_no + 1
    /\ skipped' = 0
    /\ entry_lines' = <<>>
    /\ content_lines' = <<>>
    /\ groups' = <<>>
    /\ pc' = "header"
    /\ UNCHANGED <<dsl_files, first_entry, json_file, written, status>>

\* one next(file, None) that finds a line
SkipHeaderLine ==
    /\ RunFrame
    /\ pc = "header"
    /\ skipped < HeaderLines
    /\ skipped' = skipped + 1
    /\ pc' = IF skipped + 1 = HeaderLines THEN "lines" ELSE "header"
    /\ UNCHANGED <<dsl_files, file_no, entry_lines, first_entry, json_file,
                   content_lines, groups, written, status>>

\* a driver that gives up the run when a file raises
FinishFileAbort(st) ==
    /\ status' = [status EXCEPT ![file_no] = st]
    /\ pc' = IF st = "error" THEN "done" ELSE "between"

\* the parsing of the current file ends with status st
FinishFile(st) ==
    /\ status' = [status EXCEPT ![file_no] = st]
    /\ pc' = "between"

\* the file ends inside its header: the remaining next(file, None) return None,
\* the loop over the lines is empty and so is entry_lines
HeaderEOF ==
    /\ RunFrame
    /\ pc = "header"
    /\ FinishFile("ok")
    /\ UNCHANGED <<dsl_files, file_no, skipped, entry_lines, first_entry,
                   json_file, content_lines, groups, written>>

\* process_entry(entry_lines, alt_format) at a flush, and what parse_directory
\* does with the entry that parse_dsl_file yields; then_lines is entry_lines
\* after the flush, at_end tells the flush at the end of the input
Flush(then_lines, at_end) ==
    \E entry \in {ProcessEntry(entry_lines, alt_format)} :
        /\ groups' = Append(groups, entry_lines)
        /\ IF entry = IndexError
           THEN \* the exception leaves the generator and is caught by
                \* `except Exception` of parse_directory
                /\ FinishFile("error")
                /\ UNCHANGED <<entry_lines, first_entry, json_file, written>>
           ELSE /\ entry_lines' = then_lines
                /\ IF at_end THEN FinishFile("ok") ELSE UNCHANGED <<pc, status>>
                /\ IF entry = None
                   THEN UNCHANGED <<first_entry, json_file, written>>
                   ELSE /\ json_file' = WriteEntryToJson(entry.entry, json_file,
                                                         first_entry)
                        /\ first_entry' = FALSE
                        /\ written' = Append(written, <<file_no, entry.entry>>)

\* one iteration of `for line in file`
ReadLine(raw) ==
    /\ RunFrame
    /\ pc = "lines"
    /\ Len(content_lines) < MaxLines
    /\ content_lines' = Append(content_lines, raw)
    /\ LET line == Strip(raw)
       IN  IF line = <<>>
           THEN UNCHANGED <<pc, entry_lines, first_entry, json_file, groups,
                            written, status>>
           ELSE IF ChineseMatch(line)
                THEN IF entry_lines # <<>>
                     THEN Flush(<<line>>, FALSE)
                     ELSE /\ entry_lines' = <<line>>
                          /\ UNCHANGED <<pc, first_entry, json_file, groups,
                                         written, status>>
                ELSE /\ entry_lines' = Append(entry_lines, line)
                     /\ UNCHANGED <<pc, first_entry, json_file, groups,
                                    written, status>>
    /\ UNCHANGED <<dsl_files, file_no, skipped>>

\* the end of the file: the last group is flushed
EndOfInput ==
    /\ RunFrame
    /\ pc = "lines"
    /\ IF entry_lines # <<>>
       THEN Flush(entry_lines, TRUE)
       ELSE /\ FinishFile("ok")
            /\ UNCHANGED <<entry_lines, first_entry, json_file, groups, written>>
    /\ UNCHANGED <<dsl_files, file_no, skipped, content_lines>>

\* a parser that still flushes the accumulated group when decoding fails
DecodeFailFlush ==
    /\ RunFrame
    /\ pc \in {"header", "lines"}
    /\ FinishFile("decode")
    /\ \E entry \in {IF entry_lines = <<>> THEN None
                     ELSE ProcessEntry(entry_lines, alt_format)} :
           IF entry.kind = "entry"
           THEN /\ json_file' = WriteEntryToJson(entry.entry, json_file,
                                                 first_entry)
                /\ first_entry' = FALSE
                /\ written' = Append(written, <<file_no, entry.entry>>)
           ELSE UNCHANGED <<first_entry, json_file, written>>
    /\ UNCHANGED <<dsl_files, file_no, skipped, entry_lines, content_lines,
                   groups>>

\* a read of the file raises UnicodeDecodeError: `except UnicodeDecodeError` of
\* parse_dsl_file prints it and the generator ends
DecodeFail ==
    /\ RunFrame
    /\ pc \in {"header", "lines"}
    /\ FinishFile("decode")
    /\ UNCHANGED <<dsl_files, file_no, skipped, entry_lines, first_entry,
                   json_file, content_lines, groups, written>>

\* the loop over the files is over: json_file.write('\n]')
CloseOutput ==
    /\ RunFrame
    /\ pc = "between"
    /\ file_no = dsl_files
    /\ json_file' = json_file \o <<Text("\n"), Text("]")>>
    /\ pc' = "done"
    /\ UNCHANGED <<dsl_files, file_no, skipped, entry_lines, first_entry,
                   content_lines, groups, written, status>>

----------------------------------------------------------------------------
(* process_entry on one line group, built fragment by fragment *)

MaxFrags == 9       \* fragments and line breaks of one line group

Frag_m == <<"[", "m", "]">>
Frag_em == <<"[", "/", "m", "]">>
Frag_ex == <<"[", "e", "x", "]">>
Frag_eex == <<"[", "/", "e", "x", "]">>

\* the fragments the second line and the later lines are built from
\* candidates that are empty, Latin or Russian
MeaningFragments ==
    [pinyin |-> {<<"n">>}, body |-> {Frag_m, Frag_em, <<CYR>>, <<"a">>}]
\* example blocks around and inside meanings, the opening markers with text
ExampleFragments ==
    [pinyin |-> {<<"n">>},
     body |-> {Frag_m \o <<CYR>>, Frag_em, Frag_ex \o <<CYR>>, Frag_eex}]
\* escaped brackets and quotes, runs of whitespace
EscapeFragments ==
    [pinyin |-> {<<"n">>},
     body |-> {Frag_m, Frag_em, <<CYR>>, <<"\\">>, <<"\"">>, <<"[">>, <<" ">>}]
\* tag markers, character by character
PinyinFragments ==
    [pinyin |-> {<<"[">>, <<"c">>, <<"]">>, <<"n">>}, body |-> {MeaningLine}]

InitEntry(fragments) ==
    /\ e_frags = fragments
    /\ e_lines = <<HeadwordLine>>
    /\ e_used = 0
    /\ e_result = ProcessEntry(<<HeadwordLine>>, alt_format)
    /\ e_pc = "called"

\* lines as parse_dsl_file passes them: stripped and not empty
ValidLine(line) == line # <<>> /\ Strip(line) = line

\* process_entry(lines, alt_format) when parse_dsl_file can pass the group
ECall(lines) ==
    /\ e_lines' = lines
    /\ e_used' = e_used + 1
    /\ IF \A k \in 1..Len(lines) : ValidLine(lines[k])
       THEN e_pc' = "called" /\ e_result' = ProcessEntry(lines, alt_format)
       ELSE e_pc' = "build" /\ e_result' = None
    /\ UNCHANGED <<e_frags, alt_format>>

\* the group with one more fragment on its last line
EAppend(f) ==
    /\ EntryFrame
    /\ e_used < MaxFrags
    /\ Len(e_lines) >= 2
    /\ f \in (IF Len(e_lines) = 2 THEN e_frags.pinyin ELSE e_frags.body)
    /\ ECall([e_lines EXCEPT ![Len(e_lines)] = @ \o f])

\* the group with one more line
ENewLine ==
    /\ EntryFrame
    /\ e_used < MaxFrags
    /\ ValidLine(e_lines[Len(e_lines)])
    /\ ECall(Append(e_lines, <<>>))

----------------------------------------------------------------------------
(* is_mainly_russian on one string, built character by character *)

MaxMeaningLen == 10

\* characters of the string: any first character, then letters
FirstChars == {CYR, "a", "I", "V", "1"}
LaterChars == {CYR, "a", "I"}

InitRussian ==
    /\ r_meaning = <<>>
    /\ r_result = FALSE
    /\ r_pc = "build"

RAppend(c) ==
    /\ RussianFrame
    /\ r_pc = "build"
    /\ Len(r_meaning) < MaxMeaningLen
    /\ c \in (IF r_meaning = <<>> THEN FirstChars ELSE LaterChars)
    /\ r_meaning' = Append(r_meaning, c)
    /\ UNCHANGED <<r_result, r_pc>>

\* is_mainly_russian(r_meaning)
RClassify ==
    /\ RussianFrame
    /\ r_pc = "build"
    /\ r_result' = IsMainlyRussian(r_meaning)
    /\ r_pc' = "done"
    /\ UNCHANGED r_meaning

----------------------------------------------------------------------------
(* Specifications *)

IdleRun ==
    /\ pc = Idle
    /\ dsl_files = 0
    /\ file_no = 0
    /\ skipped = 0
    /\ entry_lines = <<>>
    /\ first_entry = TRUE
    /\ json_file = <<>>
    /\ content_lines = <<>>
    /\ groups = <<>>
    /\ written = <<>>
    /\ status = <<>>

IdleEntry ==
    /\ e_frags = [pinyin |-> {}, body |-> {}]
    /\ e_lines = <<>>
    /\ e_used = 0
    /\ e_result = None
    /\ e_pc = Idle

IdleRussian ==
    /\ r_meaning = <<>>
    /\ r_result = FALSE
    /\ r_pc = Idle

\* a run of parse_directory over the files of a directory; the operating
\* system's I/O errors are outside the model
Init == InitRun(0..MaxFiles, {FALSE}) /\ IdleEntry /\ IdleRussian

Next ==
    \/ NoFiles
    \/ OpenOutput
    \/ OpenFile
    \/ SkipHeaderLine
    \/ HeaderEOF
    \/ \E raw \in DslLines : ReadLine(raw)
    \/ EndOfInput
    \/ DecodeFail
    \/ CloseOutput

Spec == Init /\ [][Next]_vars

\* a run of parse_directory over one file, in both output shapes
InitG == InitRun({1}, BOOLEAN) /\ IdleEntry /\ IdleRussian

NextG ==
    \/ OpenOutput
    \/ OpenFile
    \/ SkipHeaderLine
    \/ HeaderEOF
    \/ \E raw \in GrouperLines : ReadLine(raw)
    \/ EndOfInput
    \/ DecodeFail
    \/ CloseOutput

SpecGrouper == InitG /\ [][NextG]_vars

\* process_entry on every line group of one fragment set
InitE(fragments, formats) ==
    IdleRun /\ alt_format \in formats /\ InitEntry(fragments) /\ IdleRussian

AllFragments ==
    UNION {fs.pinyin \cup fs.body : fs \in {MeaningFragments, ExampleFragments,
                                           EscapeFragments, PinyinFragments}}

NextE ==
    \/ \E f \in AllFragments : EAppend(f)
    \/ ENewLine

SpecEntry == InitE(MeaningFragments, BOOLEAN) /\ [][NextE]_vars
SpecExamples == InitE(ExampleFragments, {FALSE}) /\ [][NextE]_vars
SpecEscapes == InitE(EscapeFragments, {FALSE}) /\ [][NextE]_vars
SpecPinyin == InitE(PinyinFragments, {TRUE}) /\ [][NextE]_vars

\* is_mainly_russian on every string of the character sets
InitR == IdleRun /\ alt_format = FALSE /\ IdleEntry /\ InitRussian

NextR ==
    \/ \E c \in FirstChars \cup LaterChars : RAppend(c)
    \/ RClassify

SpecRussian == InitR /\ [][NextR]_vars

----------------------------------------------------------------------------
(* Properties of a run of parse_directory *)

\* the records of the output text, in the order of the text
OutputRecords ==
    LET dumps == SelectSeq(json_file, LAMBDA tok : tok.t = "dump")
    IN  [k \in 1..Len(dumps) |-> dumps[k].entry]

\* the records written, in the order they were written
WrittenEntries == [k \in 1..Len(written) |-> written[k][2]]

\* the records that file f has contributed
RECURSIVE RecordsOf(_, _)
RecordsOf(w, f) ==
    IF w = <<>> THEN <<>>
    ELSE IF Head(w)[1] = f THEN <<Head(w)[2]>> \o RecordsOf(Tail(w), f)
         ELSE RecordsOf(Tail(w), f)

\* '[' and line feed, the records with ',' and line feed between them
RECURSIVE CommaSeparated(_)
CommaSeparated(entries) ==
    IF entries = <<>> THEN <<>>
    ELSE IF Len(entries) = 1 THEN <<Dump(entries[1])>>
         ELSE <<Dump(entries[1]), Text(","), Text("\n")>>
                  \o CommaSeparated(Tail(entries))

\* json.load of the text: the list of records, or Invalid when the text is
\* no JSON array.  Line feeds between tokens are insignificant whitespace.
Invalid == [ok |-> FALSE, items |-> <<>>]
Loaded(items) == [ok |-> TRUE, items |-> items]
NoSpace(file) == SelectSeq(file, LAMBDA tok : tok # Text("\n"))
\* toks from position i on is "value (, value)* ]"
RECURSIVE LoadItems(_, _)
LoadItems(toks, i) ==
    IF i + 1 > Len(toks) \/ toks[i].t # "dump" THEN Invalid
    ELSE IF toks[i + 1] = Text("]")
         THEN IF i + 1 = Len(toks) THEN Loaded(<<toks[i].entry>>) ELSE Invalid
         ELSE IF toks[i + 1] = Text(",")
              THEN LET rest == LoadItems(toks, i + 2)
                   IN  IF rest.ok THEN Loaded(<<toks[i].entry>> \o rest.items)
                       ELSE Invalid
              ELSE Invalid
JsonLoad(file) ==
    LET toks == NoSpace(file)
    IN  IF Len(toks) < 2 \/ toks[1] # Text("[") THEN Invalid
        ELSE IF toks[2] = Text("]")
             THEN IF Len(toks) = 2 THEN Loaded(<<>>) ELSE Invalid
             ELSE LoadItems(toks, 2)

IsPrefix(a, b) == Len(a) <= Len(b) /\ SubSeq(b, 1, Len(a)) = a

Opened == pc \in {"between", "header", "lines", "done"}

\* C1: the output text is '[', the written records with a comma before every
\* record but the first and nowhere else, and ']' once the run is over; the
\* finished text parses to exactly the written records, in their order
C1_ArrayText ==
    /\ ~Opened => json_file = <<>>
    /\ Opened =>
          json_file = <<Text("["), Text("\n")>> \o CommaSeparated(WrittenEntries)
                          \o (IF pc = "done" THEN <<Text("\n"), Text("]")>>
                              ELSE <<>>)
    /\ pc = "done" => dsl_files >= 1 /\ JsonLoad(json_file) = Loaded(WrittenEntries)

\* a finished run of two records in which a file raised after its first record
C1_Witness ==
    /\ pc = "done"
    /\ Len(written) >= 2
    /\ \E f \in DOMAIN status : status[f] = "error" /\ RecordsOf(written, f) # <<>>

\* where the records of the output stand
C2_State ==
    /\ OutputRecords = WrittenEntries
    /\ \A i, j \in 1..Len(written) : i < j => written[i][1] <= written[j][1]
    /\ \A k \in 1..Len(written) : written[k][1] \in 1..file_no
    /\ file_no >= 1 => Len(RecordsOf(written, file_no)) <= Len(groups)

\* what a step does to the records: a step that completes a group of the
\* current file appends the entry of that group, when it has one, behind all
\* the records written before; no other step writes a record
C2_Step ==
    IF file_no' = file_no /\ Len(groups') = Len(groups) + 1
    THEN LET entry == ProcessEntry(groups'[Len(groups')], alt_format)
         IN  /\ SubSeq(groups', 1, Len(groups)) = groups
             /\ written' = IF entry.kind = "entry"
                           THEN Append(written, <<file_no, entry.entry>>)
                           ELSE written
    ELSE /\ written' = written
         /\ groups' = groups \/ (file_no' = file_no + 1 /\ groups' = <<>>)

\* C2: the output records are the written records in file order, never
\* interleaved: every group of a file that has an entry adds it as one more
\* record behind the records written so far (entries with equal headwords
\* too), so the records of a file are the entries of its groups in the order
\* of the groups, and the records of an earlier file precede them
C2_FileThenGroupOrder == [][C2_Step]_vars /\ []C2_State

\* two files, the first with one record, the second with two equal records
C2_Witness ==
    /\ pc = "done"
    /\ Len(written) = 3
    /\ written[1][1] = 1 /\ written[2][1] = 2 /\ written[3][1] = 2
    /\ written[2][2] = written[3][2]
    /\ OutputRecords = WrittenEntries

\* what a step keeps when a file raises
C3_Step ==
    /\ IsPrefix(written, written')
    /\ IsPrefix(OutputRecords, OutputRecords')
    /\ \A f \in DOMAIN status :
          /\ status[f] = "error" =>
                /\ status'[f] = "error"
                /\ RecordsOf(written', f) = RecordsOf(written, f)
          /\ status[f] = "pending" /\ status'[f] = "error" =>
                /\ written' = written
                /\ json_file' = json_file
                /\ pc' = "between"
                /\ file_no' = file_no

\* where a run stands after a file raised
C3_State ==
    /\ pc = "between" /\ file_no < dsl_files => ENABLED OpenFile
    /\ pc = "between" /\ file_no = dsl_files => ENABLED CloseOutput
    /\ pc = "done" =>
          /\ file_no = dsl_files
          /\ \A f \in DOMAIN status : status[f] # "pending"
          /\ json_file[Len(json_file)] = Text("]")

\* C3: an exception in one file is confined to that file: the records written
\* so far stay in the output, the failing file gets no further record, every
\* later file is still processed and the closing ']' is still written
C3_FailureConfined == [][C3_Step]_vars /\ []C3_State

\* a finished run whose first file raised after a record and whose second
\* file contributed a record
C3_Witness ==
    /\ pc = "done"
    /\ status[1] = "error"
    /\ RecordsOf(written, 1) # <<>>
    /\ RecordsOf(written, 2) # <<>>

\* C4 as stated: a file whose decoding fails has no record in the output
C4_DecodeFailureYieldsNothing ==
    \A f \in DOMAIN status : status[f] = "decode" => RecordsOf(written, f) = <<>>

C4_Step ==
    \A f \in DOMAIN status :
        /\ status[f] = "decode" =>
              /\ status'[f] = "decode"
              /\ RecordsOf(written', f) = RecordsOf(written, f)
        /\ status[f] = "pending" /\ status'[f] = "decode" =>
              /\ written' = written
              /\ json_file' = json_file
              /\ groups' = groups
              /\ pc' = "between"

C4_State ==
    /\ file_no >= 1 /\ status[file_no] = "decode" /\ groups = <<>> =>
          RecordsOf(written, file_no) = <<>>
    /\ pc = "done" => \A f \in DOMAIN status : status[f] # "pending"

\* C4, amended: when the decoding of a file fails, no further record of that
\* file is written: the file yields only the entries of the groups completed
\* before the failing read (none when no group was completed), and the other
\* files are still processed
C4_DecodeFailureStopsFile == [][C4_Step]_vars /\ []C4_State

\* a finished run whose first file failed to decode after a record and whose
\* second file contributed a record
C4_Witness ==
    /\ pc = "done"
    /\ status[1] = "decode"
    /\ RecordsOf(written, 1) # <<>>
    /\ RecordsOf(written, 2) # <<>>

----------------------------------------------------------------------------
(* Properties of the grouping of parse_dsl_file *)

OnlyIdeographs(line) == Len(line) >= 1 /\ \A i \in 1..Len(line) : line[i] = CJK

RECURSIVE Flatten(_)
Flatten(gs) == IF gs = <<>> THEN <<>> ELSE Head(gs) \o Flatten(Tail(gs))

\* the groups of the current file, the one being accumulated included
GroupsSoFar ==
    IF status[file_no] \in {"ok", "error"} \/ entry_lines = <<>> THEN groups
    ELSE Append(groups, entry_lines)

----------------------------------------------------------------------------
(* Properties of process_entry *)

Called == e_pc = "called" /\ Len(e_lines) >= 2

\* the candidate meanings as MEANINGS_REGEX captures them
Candidates == MeaningsFindall(EntryContent(e_lines))

Qualifies(candidate) == Strip(candidate) # <<>> /\ IsMainlyRussian(Strip(candidate))

\* C5: a record that process_entry returns has a non-empty list of meanings,
\* and a group whose candidates are all empty after trimming or not mainly
\* Russian gives no record, in either output shape
C5_MeaningsNonEmpty ==
    Called =>
        /\ e_result.kind \in {"entry", "None"}
        /\ e_result.kind = "entry" =>
              /\ e_result.entry.shape = (IF alt_format THEN "alt" ELSE "default")
              /\ EntryMeaningList(e_result.entry) # <<>>
        /\ LET cs == Candidates
           IN  (\A k \in 1..Len(cs) : ~Qualifies(cs[k])) => e_result = None

\* no record in the alt shape for a group with an empty candidate and a
\* candidate of Latin letters
C5_Witness ==
    /\ Called
    /\ alt_format
    /\ e_result = None
    /\ LET cs == Candidates
       IN  /\ \E k \in 1..Len(cs) : Strip(cs[k]) = <<>>
           /\ \E k \in 1..Len(cs) :
                  Strip(cs[k]) # <<>> /\ ~IsMainlyRussian(Strip(cs[k]))

\* the tag markers: [c] [/c] [p] [/p] [ref] [/ref] [b] [/b] [i] [/i] [*] [/*]
Markers ==
    {<<"[">> \o n \o <<"]">> : n \in TagNames}
        \cup {<<"[", "/">> \o n \o <<"]">> : n \in TagNames}

HasMarker(s) == \E i \in 1..Len(s) : \E m \in Markers : MatchAt(s, i, m)

\* C7: a returned record has a non-empty headword and a pinyin without any tag
\* marker, whatever the second line of the group was
C7_PinyinHasNoMarker ==
    Called /\ e_result.kind = "entry" =>
        /\ EntryWord(e_result.entry) # <<>>
        /\ ~HasMarker(EntryPinyin(e_result.entry))

\* the candidates that are kept: not empty after trimming, mainly Russian
RECURSIVE Kept(_)
Kept(ms) ==
    IF ms = <<>> THEN <<>>
    ELSE IF Qualifies(Head(ms)) THEN <<Strip(Head(ms))>> \o Kept(Tail(ms))
         ELSE Kept(Tail(ms))

\* \[ and \] replaced by the bracket, \" by the quote, whitespace collapsed,
\* trimmed
Unescaped(m) ==
    Strip(CollapseSpaces(
        Replace(Replace(Replace(m, <<"\\", "[">>, <<"[">>),
                        <<"\\", "]">>, <<"]">>),
                <<"\\", "\"">>, <<"\"">>)))

\* C8: each meaning of a record is its kept candidate with the escaped
\* brackets and the escaped double quotes unescaped, whitespace runs collapsed
\* to one space, and trimmed
C8_MeaningsUnescaped ==
    Called /\ e_result.kind = "entry" =>
        LET kept == Kept(Candidates)
        IN  EntryMeaningList(e_result.entry)
                = [k \in 1..Len(kept) |-> Unescaped(kept[k])]

\* the joined body of the group
Body == Join(SubSeq(e_lines, 3, Len(e_lines)))

\* the example blocks of s: from an [ex] marker to the end of the nearest
\* [/ex] marker that follows it
ExampleBlocks(s) ==
    LET opens == {p \in 1..Len(s) : MatchAt(s, p, ExOpen)}
        closes == {q \in 1..Len(s) : MatchAt(s, q, ExClose)}
    IN  {<<p, q + Len(ExClose) - 1>> : <<p, q>> \in
            {pq \in opens \X closes :
                /\ pq[2] > pq[1]
                /\ \A q2 \in closes : q2 > pq[1] => pq[2] <= q2}}

ExamplePositions(s) == UNION {b[1]..b[2] : b \in ExampleBlocks(s)}

\* the characters of s at the positions of the set idx, in their order
Restrict(s, idx) ==
    LET InIdx(i) == i \in idx
        at == SelectSeq(Range(1, Len(s)), InIdx)
    IN  Pick(s, at)

\* an opening marker [m] or [m<digit>] ends right before position a of s
OpensBefore(s, a) ==
    \/ MatchAt(s, a - 3, <<"[", "m", "]">>)
    \/ /\ MatchAt(s, a - 4, <<"[", "m">>)
       /\ s[a - 2] \in Digits
       /\ MatchAt(s, a - 1, <<"]">>)

\* C10: the example blocks are removed before the meanings are extracted: what
\* remains of the joined body is its text outside every example block, so no
\* text of an example block is in a meaning; the meaning spans are the
\* [m]/[m<digit>] ... [/m] spans of the remaining body (tags removed) from left
\* to right, each closed by the nearest [/m], and the meanings of the record
\* are the kept inner texts in that order
C10_ExamplesRemoved ==
    Called =>
        LET rest == Restrict(Body, (1..Len(Body)) \ ExamplePositions(Body))
            content == TagsSub(rest)
            spans == MeaningSpans(content)
            inner == [k \in 1..Len(spans) |->
                         SubSeq(content, spans[k][1], spans[k][2])]
            kept == Kept(inner)
        IN  /\ \A k \in 1..Len(spans) :
                  /\ OpensBefore(content, spans[k][1])
                  /\ MatchAt(content, spans[k][2] + 1, MClose)
                  /\ \A c \in spans[k][1]..spans[k][2] :
                        ~MatchAt(content, c, MClose)
                  /\ k > 1 => spans[k][1] > spans[k - 1][2] + Len(MClose)
            /\ IF kept = <<>> THEN e_result = None
               ELSE /\ e_result.kind = "entry"
                    /\ EntryMeaningList(e_result.entry)
                           = [k \in 1..Len(kept) |-> CleanMeaning(kept[k])]

\* a record from a body with an example block that holds text
C10_Witness ==
    /\ Called
    /\ e_result.kind = "entry"
    /\ \E i \in ExamplePositions(Body) : Body[i] = CYR

----------------------------------------------------------------------------
(* Properties of is_mainly_russian *)

RECURSIVE CountOf(_, _)
CountOf(s, chars) ==
    IF s = <<>> THEN 0
    ELSE (IF Head(s) \in chars THEN 1 ELSE 0) + CountOf(Tail(s), chars)

\* C6: is_mainly_russian(s) is true exactly when s starts with 'I' or 'V', or
\* r + l > 0 and 10 * r > r + l, for r code points of U+0400..U+04FF and l ASCII
\* letters in s: false for r + l = 0, false for a ratio of exactly 0.1
C6_RatioRule ==
    r_pc = "done" =>
        LET r == CountOf(r_meaning, {CYR})
            l == CountOf(r_meaning, LatinChars)
            marker == r_meaning # <<>> /\ Head(r_meaning) \in {"I", "V"}
        IN  /\ r_result = (marker \/ (r + l > 0 /\ 10 * r > r + l))
            /\ r + l = 0 => r_result = FALSE
            /\ ~marker /\ 10 * r = r + l => r_result = FALSE
            /\ marker => r_result = TRUE

\* one Cyrillic and nine Latin letters: a ratio of exactly 0.1, not Russian
C6_Witness ==
    /\ r_pc = "done"
    /\ CountOf(r_meaning, {CYR}) = 1
    /\ CountOf(r_meaning, LatinChars) = 9
    /\ Head(r_meaning) \notin {"I", "V"}
    /\ r_result = FALSE

====
